---- MODULE Spec2Model ----
(***************************************************************************)
(* Server actions of app/lib/action.ts: createInvoice, updateInvoice,      *)
(* deleteInvoice and authenticate.                                         *)
(*                                                                         *)
(* Every handler is one action.  The collaborators it awaits or calls      *)
(* (the sql client, revalidatePath, redirect, signIn) are the environment: *)
(* whether a statement or a call completes or raises is chosen with \E.    *)
(* One request is in flight at a time; `call` holds what the request did   *)
(* until the response is delivered.                                        *)
(***************************************************************************)
EXTENDS Integers, Sequences, FiniteSets, TLC

\* Number of ids the store's generator hands out before the model stops inserting.
MaxId == 2

VARIABLES
    invoices,   \* the invoices table: a set of rows
    nextId,     \* the store's id generator
    call        \* the request in flight and what it did, or NoCall

vars == <<invoices, nextId, call>>

-----------------------------------------------------------------------------
\* Raw form values.  FormData.get(name) is a string, or null for a missing field.

\* A string that is only compared is a TLA+ string; the amount, which is parsed,
\* is the sequence of its characters.

Null == [type |-> "null", val |-> ""]

Str(s) == [type |-> "string", val |-> s]

NullChars == [type |-> "null", val |-> <<>>]

Chars(cs) == [type |-> "string", val |-> cs]

CustomerIdInputs == {Null, Str(""), Str("c1")}

AmountInputs ==
    {NullChars, Chars(<<"a", "b", "c">>), Chars(<<"-", "1">>), Chars(<<"0">>),
     Chars(<<"0", ".", "0", "0", "5">>), Chars(<<"5">>)}

StatusInputs == {Null, Str("draft"), Str("pending"), Str("paid")}

FormDatas ==
    [customerId : CustomerIdInputs, amount : AmountInputs, status : StatusInputs]

FormDataGet(formData, name) == formData[name]

-----------------------------------------------------------------------------
\* Numbers.  A JavaScript number is modelled as an exact fraction num/den, or NaN.

NaN == [nan |-> TRUE, num |-> 0, den |-> 1]

Num(n, d) == [nan |-> FALSE, num |-> n, den |-> d]

Digits == <<"0", "1", "2", "3", "4", "5", "6", "7", "8", "9">>

IsDigit(c) == \E i \in 1..10 : Digits[i] = c

DigitVal(c) == (CHOOSE i \in 1..10 : Digits[i] = c) - 1

RECURSIVE DigitsVal(_)
DigitsVal(s) ==
    IF s = <<>> THEN 0
    ELSE 10 * DigitsVal(SubSeq(s, 1, Len(s) - 1)) + DigitVal(s[Len(s)])

RECURSIVE Pow10(_)
Pow10(k) == IF k = 0 THEN 1 ELSE 10 * Pow10(k - 1)

AllDigits(s) == \A i \in 1..Len(s) : IsDigit(s[i])

\* An unsigned decimal literal: digits, at most one ".", at least one digit.
ParseUnsigned(s) ==
    LET dots == {i \in 1..Len(s) : s[i] = "."}
    IN  IF dots = {}
        THEN IF Len(s) > 0 /\ AllDigits(s) THEN Num(DigitsVal(s), 1) ELSE NaN
        ELSE LET p == CHOOSE i \in dots : TRUE
                 int == SubSeq(s, 1, p - 1)
                 frac == SubSeq(s, p + 1, Len(s))
             IN  IF Cardinality(dots) = 1 /\ AllDigits(int) /\ AllDigits(frac)
                    /\ Len(int) + Len(frac) > 0
                 THEN Num(DigitsVal(int \o frac), Pow10(Len(frac)))
                 ELSE NaN

Negate(x) == [x EXCEPT !.num = 0 - @]

\* Number(value) as z.coerce applies it: null and "" give 0, a decimal literal
\* gives its value, any other string gives NaN.
ToNumber(raw) ==
    IF raw.type = "null" THEN Num(0, 1)
    ELSE IF raw.val = <<>> THEN Num(0, 1)
    ELSE IF raw.val[1] = "-" THEN Negate(ParseUnsigned(Tail(raw.val)))
    ELSE IF raw.val[1] = "+" THEN ParseUnsigned(Tail(raw.val))
    ELSE ParseUnsigned(raw.val)

GreaterThanZero(x) == ~x.nan /\ x.num > 0

Times(x, k) == IF x.nan THEN NaN ELSE Num(x.num * k, x.den)

-----------------------------------------------------------------------------
\* FormSchema and the schemas derived from it.

StatusEnum == {"pending", "paid"}

\* customerId: z.string({ invalid_type_error }).  The issues of one field are a
\* sequence of messages, empty when the field is accepted.
CustomerIdIssues(raw) ==
    IF raw.type = "string" THEN <<>> ELSE <<"Please select a customer.">>

\* A faulty variant of AmountIssues: gte(0) in place of gt(0).
AmountIssuesGte(raw) ==
    LET n == ToNumber(raw)
    IN  IF n.nan THEN <<"Expected number, received nan">>
        ELSE IF n.num >= 0 THEN <<>>
        ELSE <<"Please enter an amount greate than $0.">>

\* amount: z.coerce.number().gt(0, { message }).
AmountIssues(raw) ==
    LET n == ToNumber(raw)
    IN  IF n.nan THEN <<"Expected number, received nan">>
        ELSE IF GreaterThanZero(n) THEN <<>>
        ELSE <<"Please enter an amount greate than $0.">>

\* A faulty variant of StatusIssues: z.string() in place of z.enum([..]).
StatusIssuesAnyString(raw) ==
    IF raw.type # "string" THEN <<"Please select an invoice status.">> ELSE <<>>

\* status: z.enum(['pending', 'paid'], { invalid_type_error }).
StatusIssues(raw) ==
    IF raw.type # "string" THEN <<"Please select an invoice status.">>
    ELSE IF raw.val \in StatusEnum THEN <<>>
    ELSE <<"Invalid enum value. Expected 'pending' | 'paid'">>

FieldIssues(input) ==
    [customerId |-> CustomerIdIssues(input.customerId),
     amount |-> AmountIssues(input.amount),
     status |-> StatusIssues(input.status)]

\* error.flatten().fieldErrors: the fields that have issues, each with its messages.
Flatten(issues) ==
    [f \in {g \in DOMAIN issues : issues[g] # <<>>} |-> issues[f]]

NoData == [customerId |-> "", amount |-> NaN, status |-> ""]

NoFieldErrors == [f \in {} |-> <<>>]

\* FormSchema.omit({ id: true, date: true }).safeParse(input)
SafeParse(input) ==
    LET issues == FieldIssues(input)
    IN  IF \A f \in DOMAIN issues : issues[f] = <<>>
        THEN [success |-> TRUE,
              data |-> [customerId |-> input.customerId.val,
                        amount |-> ToNumber(input.amount),
                        status |-> input.status.val],
              fieldErrors |-> NoFieldErrors]
        ELSE [success |-> FALSE, data |-> NoData, fieldErrors |-> Flatten(issues)]

-----------------------------------------------------------------------------
\* The server clock.  new Date() reads it; toISOString() is a date, "T", a time
\* of day.

Instants == {[date |-> "2024-01-01", time |-> "23:59:59.999Z"]}

ToISOString(t) == t

\* .split('T')[0]
DatePart(iso) == iso.date

-----------------------------------------------------------------------------
\* The statements sent to the store.  Each is atomic: it takes effect or fails.

Row(id, customerId, amount, status, date) ==
    [id |-> id, customer_id |-> customerId, amount |-> amount,
     status |-> status, date |-> date]

\* INSERT INTO invoices (customer_id, amount, status, date) VALUES (...)
Insert(table, id, customerId, amount, status, date) ==
    table \cup {Row(id, customerId, amount, status, date)}

\* A faulty variant of Update: the statement without its WHERE clause.
UpdateWithoutWhere(table, id, customerId, amount, status) ==
    {[r EXCEPT !.customer_id = customerId, !.amount = amount, !.status = status] :
        r \in table}

\* UPDATE invoices SET customer_id = .., amount = .., status = .. WHERE id = ..
Update(table, id, customerId, amount, status) ==
    {IF r.id = id
        THEN [r EXCEPT !.customer_id = customerId, !.amount = amount,
                       !.status = status]
        ELSE r : r \in table}

\* DELETE FROM invoices WHERE id = ..
Delete(table, id) == {r \in table : r.id # id}

-----------------------------------------------------------------------------
\* What a handler run leaves behind: the calls it made to its collaborators, in
\* order, and how it ended (a returned value, a redirect, or a raised error).

ListingPath == "/dashboard/invoices"

NoError == [class |-> "none", type |-> "none"]

\* One call to a collaborator: its name, its argument, and the error it raised
\* (NoError when it completed).
Effect(name, arg, error) ==
    [call |-> name, arg |-> arg, ok |-> error = NoError, error |-> error]

ReturnObject(hasErrors, errors, message) ==
    [kind |-> "return", type |-> "object", hasErrors |-> hasErrors,
     errors |-> errors, message |-> message, path |-> "", error |-> NoError]

ReturnString(message) ==
    [kind |-> "return", type |-> "string", hasErrors |-> FALSE,
     errors |-> NoFieldErrors, message |-> message, path |-> "", error |-> NoError]

ReturnUndefined ==
    [kind |-> "return", type |-> "undefined", hasErrors |-> FALSE,
     errors |-> NoFieldErrors, message |-> "", path |-> "", error |-> NoError]

Redirected(path) ==
    [kind |-> "redirect", type |-> "none", hasErrors |-> FALSE,
     errors |-> NoFieldErrors, message |-> "", path |-> path, error |-> NoError]

Raised(error) ==
    [kind |-> "throw", type |-> "none", hasErrors |-> FALSE,
     errors |-> NoFieldErrors, message |-> "", path |-> "", error |-> error]

Run(table, effects, result) ==
    [table |-> table, effects |-> effects, result |-> result]

\* The errors the sql client and revalidatePath raise when they fail.
SqlError == [class |-> "Error", type |-> "sql"]

RevalidateError == [class |-> "Error", type |-> "revalidatePath"]

\* A faulty variant of RevalidateAndRedirect: redirect() called first.  redirect
\* leaves the handler, so revalidatePath is never reached.
RedirectBeforeRevalidate(table, effects, revalidateOk) ==
    Run(table, effects \o <<Effect("redirect", ListingPath, NoError)>>,
        Redirected(ListingPath))

\* revalidatePath('/dashboard/invoices'); redirect('/dashboard/invoices')
\* outside any try block: an error of revalidatePath propagates.
RevalidateAndRedirect(table, effects, revalidateOk) ==
    IF revalidateOk
    THEN Run(table,
             effects \o <<Effect("revalidatePath", ListingPath, NoError),
                          Effect("redirect", ListingPath, NoError)>>,
             Redirected(ListingPath))
    ELSE Run(table,
             effects \o <<Effect("revalidatePath", ListingPath, RevalidateError)>>,
             Raised(RevalidateError))

\* A faulty variant of DatabaseError: no catch block, the error propagates.
DatabaseErrorUncaught(message) == Raised(SqlError)

\* The catch block of a statement: a result with only a message.
DatabaseError(message) == ReturnObject(FALSE, NoFieldErrors, message)

\* The early return on failed validation.
ValidationFailure(fieldErrors, message) == ReturnObject(TRUE, fieldErrors, message)

\* const amountsInCents = amount * 100
AmountsInCents(amount) == Times(amount, 100)

ParseInvoiceForm(formData) ==
    SafeParse([customerId |-> FormDataGet(formData, "customerId"),
               amount |-> FormDataGet(formData, "amount"),
               status |-> FormDataGet(formData, "status")])

\* createInvoice(prevState, formData).  id is the id the store gives the new row,
\* t the clock, sqlOk and revalidateOk whether the statement and revalidatePath
\* complete.
CreateInvoice(table, id, t, formData, sqlOk, revalidateOk) ==
    LET validatedFields == ParseInvoiceForm(formData)
        data == validatedFields.data
        date == DatePart(ToISOString(t))
    IN  IF ~validatedFields.success
        THEN Run(table, <<>>,
                 ValidationFailure(validatedFields.fieldErrors,
                                   "Missing Fields. Failed to create invoice."))
        ELSE IF ~sqlOk
        THEN Run(table, <<Effect("sql", "INSERT", SqlError)>>,
                 DatabaseError("Database error: Failed to creata Invoice"))
        ELSE RevalidateAndRedirect(
                 Insert(table, id, data.customerId, AmountsInCents(data.amount),
                        data.status, date),
                 <<Effect("sql", "INSERT", NoError)>>, revalidateOk)

\* updateInvoice(id, prevState, formData)
UpdateInvoice(table, id, formData, sqlOk, revalidateOk) ==
    LET validatedFields == ParseInvoiceForm(formData)
        data == validatedFields.data
    IN  IF ~validatedFields.success
        THEN Run(table, <<>>,
                 ValidationFailure(validatedFields.fieldErrors,
                                   "Missing Fields. Failed to Update Invoice."))
        ELSE IF ~sqlOk
        THEN Run(table, <<Effect("sql", "UPDATE", SqlError)>>,
                 DatabaseError("Database error: fail to update invoice"))
        ELSE RevalidateAndRedirect(
                 Update(table, id, data.customerId, AmountsInCents(data.amount),
                        data.status),
                 <<Effect("sql", "UPDATE", NoError)>>, revalidateOk)

\* deleteInvoice(id): the statement and revalidatePath share one try block.
DeleteInvoice(table, id, sqlOk, revalidateOk) ==
    IF ~sqlOk
    THEN Run(table, <<Effect("sql", "DELETE", SqlError)>>,
             DatabaseError("Database error: fail to delete invoice"))
    ELSE IF ~revalidateOk
    THEN Run(Delete(table, id),
             <<Effect("sql", "DELETE", NoError),
               Effect("revalidatePath", ListingPath, RevalidateError)>>,
             DatabaseError("Database error: fail to delete invoice"))
    ELSE Run(Delete(table, id),
             <<Effect("sql", "DELETE", NoError),
               Effect("revalidatePath", ListingPath, NoError)>>,
             ReturnObject(FALSE, NoFieldErrors, "Invoice Deleted"))

\* What signIn('credentials', formData) can do: complete, raise an AuthError of
\* some type, or raise an error that is no AuthError.
SignInOutcomes ==
    {NoError,
     [class |-> "AuthError", type |-> "CredentialsSignin"],
     [class |-> "AuthError", type |-> "CallbackRouteError"],
     [class |-> "AuthError", type |-> "AccessDenied"],
     [class |-> "Error", type |-> "NEXT_REDIRECT"],
     [class |-> "Error", type |-> "TypeError"]}

\* A faulty variant of InstanceOfAuthError: a catch that takes every error for an
\* AuthError.
AnyErrorIsAuthError(error) == TRUE

InstanceOfAuthError(error) == error.class = "AuthError"

\* authenticate(prevState, formData)
Authenticate(table, signInOutcome) ==
    IF signInOutcome = NoError
    THEN Run(table, <<Effect("signIn", "credentials", NoError)>>, ReturnUndefined)
    ELSE Run(table, <<Effect("signIn", "credentials", signInOutcome)>>,
             IF InstanceOfAuthError(signInOutcome)
             THEN IF signInOutcome.type = "CredentialsSignin"
                  THEN ReturnString("Invalid credentials.")
                  ELSE ReturnString("Something went wrong.")
             ELSE Raised(signInOutcome))

-----------------------------------------------------------------------------
\* The state machine.

NoForm == [customerId |-> Null, amount |-> NullChars, status |-> Null]

NoCall ==
    [op |-> "none", id |-> 0, formData |-> NoForm, pre |-> {},
     effects |-> <<>>, result |-> ReturnUndefined]

Called(op, id, formData, pre, run) ==
    [op |-> op, id |-> id, formData |-> formData, pre |-> pre,
     effects |-> run.effects, result |-> run.result]

\* The ids a caller can name: those the store hands out and one it never does.
Ids == 1..(MaxId + 1)

Init ==
    /\ invoices = {}
    /\ nextId = 1
    /\ call = NoCall

\* What the collaborators of one run do.  A handler that returns before its
\* statement observes none of them, one whose statement fails does not reach
\* revalidatePath.
Fates(reachesSql) ==
    IF reachesSql
    THEN {[sqlOk |-> FALSE, revalidateOk |-> TRUE],
          [sqlOk |-> TRUE, revalidateOk |-> FALSE],
          [sqlOk |-> TRUE, revalidateOk |-> TRUE]}
    ELSE {[sqlOk |-> TRUE, revalidateOk |-> TRUE]}

createInvoice ==
    /\ call = NoCall
    /\ \E formData \in FormDatas, t \in Instants :
       \E fate \in Fates(ParseInvoiceForm(formData).success) :
         LET run == CreateInvoice(invoices, nextId, t, formData, fate.sqlOk,
                                  fate.revalidateOk)
             inserted == run.effects # <<>> /\ run.effects[1].ok
         IN  /\ inserted => nextId <= MaxId
             /\ invoices' = run.table
             /\ nextId' = IF inserted THEN nextId + 1 ELSE nextId
             /\ call' = Called("createInvoice", 0, formData, invoices, run)

updateInvoice ==
    /\ call = NoCall
    /\ \E id \in Ids, formData \in FormDatas :
       \E fate \in Fates(ParseInvoiceForm(formData).success) :
         LET run == UpdateInvoice(invoices, id, formData, fate.sqlOk,
                                  fate.revalidateOk)
         IN  /\ invoices' = run.table
             /\ call' = Called("updateInvoice", id, formData, invoices, run)
    /\ UNCHANGED nextId

deleteInvoice ==
    /\ call = NoCall
    /\ \E id \in Ids, fate \in Fates(TRUE) :
         LET run == DeleteInvoice(invoices, id, fate.sqlOk, fate.revalidateOk)
         IN  /\ invoices' = run.table
             /\ call' = Called("deleteInvoice", id, NoForm, invoices, run)
    /\ UNCHANGED nextId

authenticate ==
    /\ call = NoCall
    /\ \E signInOutcome \in SignInOutcomes :
         LET run == Authenticate(invoices, signInOutcome)
         IN  /\ invoices' = run.table
             /\ call' = Called("authenticate", 0, NoForm, invoices, run)
    /\ UNCHANGED nextId

\* The response of the request in flight is delivered; the handlers keep nothing
\* of it.
Respond ==
    /\ call # NoCall
    /\ call' = NoCall
    /\ UNCHANGED <<invoices, nextId>>

Next ==
    \/ createInvoice
    \/ updateInvoice
    \/ deleteInvoice
    \/ authenticate
    \/ Respond

Spec == Init /\ [][Next]_vars

TypeOK ==
    /\ nextId \in 1..(MaxId + 1)
    /\ \A r \in invoices : r.id \in 1..(nextId - 1)
    /\ \A r, q \in invoices : r.id = q.id => r = q

-----------------------------------------------------------------------------
\* Vocabulary of the properties.

LessOrEqualZero(x) == ~x.nan /\ x.num <= 0

\* The number has no fractional part.
IsInteger(x) == ~x.nan /\ x.num % x.den = 0

InvoiceForm == call.op \in {"createInvoice", "updateInvoice"}

Mutation == call.op \in {"createInvoice", "updateInvoice", "deleteInvoice"}

\* The run issued its statement, and the statement took effect / failed.
SqlSucceeded == call.effects # <<>> /\ call.effects[1].call = "sql" /\ call.effects[1].ok

SqlFailed == call.effects # <<>> /\ call.effects[1].call = "sql" /\ ~call.effects[1].ok

\* revalidatePath was called and raised.
RevalidateFailed ==
    \E i \in 1..Len(call.effects) :
        call.effects[i].call = "revalidatePath" /\ ~call.effects[i].ok

\* The run ended by returning the validation-failure result with an entry for field.
RejectedFor(field) ==
    /\ call.result.kind = "return"
    /\ call.result.type = "object"
    /\ call.result.hasErrors
    /\ field \in DOMAIN call.result.errors
    /\ call.result.errors[field] # <<>>

\* No statement was sent and the table is as it was before the call.
NoStoreCall == call.effects = <<>> /\ invoices = call.pre

HasRow(table, id) == \E r \in table : r.id = id

DatabaseErrorMessage ==
    [createInvoice |-> "Database error: Failed to creata Invoice",
     updateInvoice |-> "Database error: fail to update invoice",
     deleteInvoice |-> "Database error: fail to delete invoice"]

Invalidation == Effect("revalidatePath", ListingPath, NoError)

Redirection == Effect("redirect", ListingPath, NoError)

\* Every redirect in the run comes after a completed invalidation of the listing.
RedirectOnlyAfterInvalidation ==
    \A i \in 1..Len(call.effects) :
        call.effects[i].call = "redirect" =>
            \E j \in 1..(i - 1) : call.effects[j] = Invalidation

NoRedirect ==
    /\ call.result.kind # "redirect"
    /\ \A i \in 1..Len(call.effects) : call.effects[i].call # "redirect"

-----------------------------------------------------------------------------
\* C1: createInvoice and updateInvoice reject every form whose amount is <= 0,
\* whatever the other fields are: they return the validation failure with an
\* entry for amount, send no statement, and leave the table as it was.
C1_NonPositiveAmountRejected ==
    (InvoiceForm /\ LessOrEqualZero(ToNumber(call.formData.amount))) =>
        RejectedFor("amount") /\ NoStoreCall

\* An update of an existing row whose only fault is the amount "0".
C1_Witness ==
    /\ call.op = "updateInvoice"
    /\ HasRow(call.pre, call.id)
    /\ call.formData =
         [customerId |-> Str("c1"), amount |-> Chars(<<"0">>), status |-> Str("paid")]
    /\ DOMAIN call.result.errors = {"amount"}

\* C2 (as claimed): createInvoice and updateInvoice reject every form whose
\* customerId is missing or the empty string, with an entry for customerId, and
\* insert or update no row.
C2_EmptyCustomerRejected ==
    (InvoiceForm /\ (call.formData.customerId.type = "null"
                     \/ call.formData.customerId.val = "")) =>
        RejectedFor("customerId") /\ NoStoreCall

\* C3 (as claimed): the amount of every stored row is a whole number of minor
\* units.
C3_StoredAmountIsInteger == \A r \in invoices : IsInteger(r.amount)

\* C4 (as claimed): a createInvoice or updateInvoice whose statement succeeds
\* invalidates the listing and then redirects to it, and never redirects without
\* the invalidation before; a deleteInvoice whose statement succeeds invalidates
\* the listing, does not redirect, and returns a value.
C4_InvalidateThenRedirect ==
    /\ (InvoiceForm /\ SqlSucceeded) =>
           /\ SubSeq(call.effects, 2, Len(call.effects)) = <<Invalidation, Redirection>>
           /\ call.result = Redirected(ListingPath)
    /\ RedirectOnlyAfterInvalidation
    /\ (call.op = "deleteInvoice" /\ SqlSucceeded) =>
           /\ SubSeq(call.effects, 2, Len(call.effects)) = <<Invalidation>>
           /\ NoRedirect
           /\ call.result.kind = "return"

\* C4 (amended): after a successful statement createInvoice and updateInvoice
\* call revalidatePath on the listing; when it completes they redirect to the
\* listing next, and when it raises the error propagates and nothing redirects.
\* No run redirects without a completed invalidation before.  After a successful
\* statement deleteInvoice calls revalidatePath on the listing, never redirects,
\* and returns a value whether or not revalidatePath completed.
C4_InvalidateThenRedirectUnlessRaised ==
    /\ (InvoiceForm /\ SqlSucceeded) =>
           /\ Len(call.effects) >= 2
           /\ call.effects[2].call = "revalidatePath"
           /\ call.effects[2].arg = ListingPath
           /\ IF call.effects[2].ok
              THEN /\ SubSeq(call.effects, 2, Len(call.effects))
                        = <<Invalidation, Redirection>>
                   /\ call.result = Redirected(ListingPath)
              ELSE /\ Len(call.effects) = 2
                   /\ call.result = Raised(call.effects[2].error)
    /\ RedirectOnlyAfterInvalidation
    /\ (call.op = "deleteInvoice" /\ SqlSucceeded) =>
           /\ Len(call.effects) = 2
           /\ call.effects[2].call = "revalidatePath"
           /\ call.effects[2].arg = ListingPath
           /\ NoRedirect
           /\ call.result.kind = "return"

\* A create that inserted a row, invalidated the listing and redirected.
C4_Witness ==
    /\ call.op = "createInvoice"
    /\ invoices # call.pre
    /\ call.effects = <<Effect("sql", "INSERT", NoError), Invalidation, Redirection>>
    /\ call.result.kind = "redirect"

\* C5: when the statement of createInvoice, updateInvoice or deleteInvoice fails,
\* the handler returns that operation's database-error message (it does not
\* raise), the table is as before the call, and neither revalidatePath nor
\* redirect is called.
C5_StoreFailureReported ==
    (Mutation /\ SqlFailed) =>
        /\ call.result = ReturnObject(FALSE, NoFieldErrors, DatabaseErrorMessage[call.op])
        /\ invoices = call.pre
        /\ Len(call.effects) = 1

\* An update of an existing row, with a valid form, whose statement failed.
C5_Witness ==
    /\ call.op = "updateInvoice"
    /\ SqlFailed
    /\ HasRow(call.pre, call.id)
    /\ call.result.message = "Database error: fail to update invoice"

\* C6 (as claimed): a deleteInvoice(id) whose statement succeeds removes the row
\* with that id and no other, leaves the table as it was when no row has the id,
\* and returns { message: 'Invoice Deleted' } in both cases.
C6_DeleteRemovesRowAndSucceeds ==
    (call.op = "deleteInvoice" /\ SqlSucceeded) =>
        /\ invoices = {r \in call.pre : r.id # call.id}
        /\ ~HasRow(call.pre, call.id) => invoices = call.pre
        /\ call.result = ReturnObject(FALSE, NoFieldErrors, "Invoice Deleted")

\* The update "took": its statement succeeded and revalidatePath did not raise.
SuccessfulUpdate == call.op = "updateInvoice" /\ SqlSucceeded /\ ~RevalidateFailed

\* C7: a successful updateInvoice(id, ..) changes only customer_id, amount and
\* status of the row with that id: the row keeps its id and date and every other
\* row is as before.  When no row has the id, no row changes, no error results,
\* and the run still invalidates the listing and then redirects.
C7_UpdateFrame ==
    SuccessfulUpdate =>
        /\ \A r \in call.pre : r.id # call.id => r \in invoices
        /\ \A r \in invoices : r.id # call.id => r \in call.pre
        /\ \A r \in call.pre : r.id = call.id =>
               \E q \in invoices : q.id = r.id /\ q.date = r.date
        /\ Cardinality(invoices) = Cardinality(call.pre)
        /\ ~HasRow(call.pre, call.id) => invoices = call.pre
        /\ call.effects = <<Effect("sql", "UPDATE", NoError), Invalidation, Redirection>>
        /\ call.result = Redirected(ListingPath)

\* A successful update of one row of two that changed the row.
C7_Witness ==
    /\ SuccessfulUpdate
    /\ Cardinality(call.pre) = 2
    /\ HasRow(call.pre, call.id)
    /\ invoices # call.pre

\* A successful update that named an id no row has, on a table with rows.
C7_WitnessNoRow ==
    /\ SuccessfulUpdate
    /\ call.pre # {}
    /\ ~HasRow(call.pre, call.id)
    /\ call.result.kind = "redirect"

\* C8: authenticate returns undefined when signIn completes, 'Invalid
\* credentials.' on an AuthError of type CredentialsSignin, 'Something went
\* wrong.' on an AuthError of any other type, and re-raises any other error
\* unchanged.
C8_AuthenticateResult ==
    call.op = "authenticate" =>
        LET e == call.effects[1].error
        IN  /\ call.effects[1].call = "signIn"
            /\ e = NoError => call.result = ReturnUndefined
            /\ (e.class = "AuthError" /\ e.type = "CredentialsSignin") =>
                   call.result = ReturnString("Invalid credentials.")
            /\ (e.class = "AuthError" /\ e.type # "CredentialsSignin") =>
                   call.result = ReturnString("Something went wrong.")
            /\ (e # NoError /\ e.class # "AuthError") => call.result = Raised(e)

\* signIn raised an error that is no AuthError and authenticate raised it.
C8_Witness ==
    /\ call.op = "authenticate"
    /\ call.effects[1].error = [class |-> "Error", type |-> "TypeError"]
    /\ call.result.kind = "throw"

\* C9: createInvoice and updateInvoice reject every form whose status is not
\* exactly 'pending' or 'paid' (a missing status included), with an entry for
\* status, and insert or update no row; so every stored row has status 'pending'
\* or 'paid'.
C9_StatusEnumerated ==
    /\ (InvoiceForm /\ ~(call.formData.status.type = "string"
                         /\ call.formData.status.val \in {"pending", "paid"})) =>
           RejectedFor("status") /\ NoStoreCall
    /\ \A r \in invoices : r.status \in {"pending", "paid"}

\* A create whose only fault is the status "draft", on a table with rows.
C9_Witness ==
    /\ call.op = "createInvoice"
    /\ call.pre # {}
    /\ call.formData.status = Str("draft")
    /\ DOMAIN call.result.errors = {"status"}

\* C10 (as claimed): whenever deleteInvoice returns its failure message, the
\* table is as it was before the call.
C10_DeleteFailureLeavesTable ==
    (call.op = "deleteInvoice"
     /\ call.result.message = "Database error: fail to delete invoice") =>
        invoices = call.pre

====
